---- MODULE Spec2Model ----
(***************************************************************************)
(* Model of app.py (incidencias_minisistema): the employee catalog, the    *)
(* incidence ledger and the vacation report vacation_status_for_all.       *)
(*                                                                         *)
(* Conventions                                                             *)
(*  - a date object is a record [year, month, day];                        *)
(*  - a TEXT column holding a date is the triple <<y, m, d>> of the fields *)
(*    of "YYYY-MM-DD"; a triple that is no calendar date stands for a text *)
(*    datetime.fromisoformat rejects;                                      *)
(*  - a Python str is a sequence of one-character strings;                 *)
(*  - amounts of days rounded to 2 decimals are integers in hundredths.    *)
(***************************************************************************)
EXTENDS Integers, Sequences, FiniteSets, TLC

VARIABLES
    employees,    \* table employees: set of rows, name UNIQUE
    incidences,   \* table incidences: sequence of rows in id order
    now,          \* the system clock (date.today())
    rpc,          \* position of the running vacation_status_for_all call
    today,        \* its local today
    cy,           \* its locals cy_start, cy_end
    py,           \* its locals py_start, py_end
    rows,         \* its cur.fetchall()
    idx,          \* index of the row the for loop is at
    tcy,          \* its local taken_cy of the current iteration
    acc,          \* its local out
    seen,         \* database states that existed during the call (history)
    midWrites,    \* writes other sessions may still make during report calls
    mb,           \* last call of months_between: [d1, d2, res]
    view          \* tab "Por mes": the month selected and the table shown

vars == <<employees, incidences, now, rpc, today, cy, py, rows, idx, tcy, acc,
          seen, midWrites, mb, view>>

(***************************************************************************)
(* Bounds                                                                  *)
(***************************************************************************)
MaxIncidences == 2     \* rows the table incidences may hold
MaxMidWrites == 0      \* Spec: writes of other sessions inside report calls
MaxConcWrites == 2     \* SpecConc: writes of other sessions inside report calls
NumRefYears == 1       \* SpecCalc: calendar years the clock runs through, from 2024
MaxMidnights == 2      \* SpecClock: midnights the clock passes, from 2024-12-30

(***************************************************************************)
(* datetime.date                                                           *)
(***************************************************************************)
date(y, m, d) == [year |-> y, month |-> m, day |-> d]

NoDate == date(0, 0, 0)

IsLeap(y) == (y % 4 = 0 /\ y % 100 # 0) \/ y % 400 = 0

DaysInMonth(y, m) ==
    IF m = 2 THEN (IF IsLeap(y) THEN 29 ELSE 28)
    ELSE IF m \in {4, 6, 9, 11} THEN 30 ELSE 31

DaysBeforeYear(y) ==
    365 * (y - 1) + ((y - 1) \div 4) - ((y - 1) \div 100) + ((y - 1) \div 400)

RECURSIVE DaysBeforeMonth(_, _)
DaysBeforeMonth(y, m) ==
    IF m <= 1 THEN 0 ELSE DaysBeforeMonth(y, m - 1) + DaysInMonth(y, m - 1)

toordinal(d) == DaysBeforeYear(d.year) + DaysBeforeMonth(d.year, d.month) + d.day

fromordinal(n) ==
    LET y == CHOOSE yy \in (n \div 366)..(n \div 365 + 1) :
                 DaysBeforeYear(yy) < n /\ n <= DaysBeforeYear(yy + 1)
        r == n - DaysBeforeYear(y)
        m == CHOOSE mm \in 1..12 :
                 DaysBeforeMonth(y, mm) < r
                 /\ r <= DaysBeforeMonth(y, mm) + DaysInMonth(y, mm)
    IN date(y, m, r - DaysBeforeMonth(y, m))

\* date + timedelta(days=k)
AddDays(d, k) == fromordinal(toordinal(d) + k)

\* (d2 - d1).days
DaysDiff(d2, d1) == toordinal(d2) - toordinal(d1)

\* date.weekday(): Monday is 0
weekday(d) == (toordinal(d) + 6) % 7

DateLT(a, b) ==
    \/ a.year < b.year
    \/ a.year = b.year /\ a.month < b.month
    \/ a.year = b.year /\ a.month = b.month /\ a.day < b.day

DateLE(a, b) == a = b \/ DateLT(a, b)

DateMax(a, b) == IF DateLE(a, b) THEN b ELSE a

\* date.isoformat(): the text "YYYY-MM-DD"
isoformat(d) == <<d.year, d.month, d.day>>

\* whether datetime.fromisoformat(text) returns (TRUE) or raises (FALSE)
IsIsoDate(t) ==
    /\ t[1] \in 1..9999
    /\ t[2] \in 1..12
    /\ t[3] \in 1..DaysInMonth(t[1], t[2])

\* datetime.fromisoformat(text).date(), defined when IsIsoDate(text)
fromisoformat(t) == date(t[1], t[2], t[3])

\* SQLite: DATE(dt) BETWEEN DATE(lo) AND DATE(hi), a comparison of texts;
\* DATE() of a text that is no date is NULL and the comparison is not true
SqlDateBetween(dt, lo, hi) ==
    /\ IsIsoDate(dt) /\ IsIsoDate(lo) /\ IsIsoDate(hi)
    /\ DateLE(fromisoformat(lo), fromisoformat(dt))
    /\ DateLE(fromisoformat(dt), fromisoformat(hi))

(***************************************************************************)
(* str                                                                     *)
(***************************************************************************)
UpperChar(c) ==
    CASE c = "a" -> "A" [] c = "b" -> "B" [] c = "p" -> "P" [] c = "q" -> "Q"
      [] c = "n" -> "N" [] OTHER -> c

\* str.upper()
upper(s) == [i \in 1..Len(s) |-> UpperChar(s[i])]

RECURSIVE lstrip(_)
lstrip(s) == IF s # <<>> /\ Head(s) = " " THEN lstrip(Tail(s)) ELSE s

RECURSIVE rstrip(_)
rstrip(s) ==
    IF s # <<>> /\ s[Len(s)] = " " THEN rstrip(SubSeq(s, 1, Len(s) - 1)) ELSE s

\* str.strip()
strip(s) == rstrip(lstrip(s))

\* code point of a character, for SQLite's BINARY collation
CodePoint(c) ==
    CASE c = " " -> 32 [] c = "A" -> 65 [] c = "B" -> 66 [] c = "P" -> 80
      [] c = "Q" -> 81 [] c = "a" -> 97 [] c = "b" -> 98 [] c = "p" -> 112
      [] c = "q" -> 113 [] c = "N" -> 78 [] c = "n" -> 110 [] OTHER -> 0

RECURSIVE StrLT(_, _)
StrLT(s, t) ==
    IF t = <<>> THEN FALSE
    ELSE IF s = <<>> THEN TRUE
    ELSE IF CodePoint(Head(s)) # CodePoint(Head(t))
         THEN CodePoint(Head(s)) < CodePoint(Head(t))
         ELSE StrLT(Tail(s), Tail(t))

\* None, and the empty text that "x or None" turns into None
None == <<>>

\* str.replace("  ", " "): from the left, occurrences that do not overlap
RECURSIVE ReplaceDoubleSpace(_)
ReplaceDoubleSpace(s) ==
    IF Len(s) < 2 THEN s
    ELSE IF s[1] = " " /\ s[2] = " "
         THEN <<" ">> \o ReplaceDoubleSpace(SubSeq(s, 3, Len(s)))
         ELSE <<s[1]>> \o ReplaceDoubleSpace(Tail(s))

DigitValue(c) ==
    CASE c = "0" -> 0 [] c = "1" -> 1 [] c = "2" -> 2 [] c = "3" -> 3 [] c = "4" -> 4
      [] c = "5" -> 5 [] c = "6" -> 6 [] c = "7" -> 7 [] c = "8" -> 8 [] c = "9" -> 9
      [] OTHER -> -1

\* re.sub(r"[^0-9]", "", s)
OnlyDigits(s) ==
    LET IsDigit(c) == DigitValue(c) >= 0
    IN SelectSeq(s, IsDigit)

\* int(ds) of a text of digits; int("") raises
RECURSIVE IntOfDigits(_)
IntOfDigits(ds) ==
    IF ds = <<>> THEN 0
    ELSE 10 * IntOfDigits(SubSeq(ds, 1, Len(ds) - 1)) + DigitValue(ds[Len(ds)])

(***************************************************************************)
(* Table employees                                                         *)
(***************************************************************************)
\* the row seed_employees stores for one input row r
EmployeeRow(r) ==
    [name          |-> upper(strip(r.name)),
     plant         |-> upper(strip(r.plant)),
     hire_date     |-> r.hire_date,
     days_per_year |-> r.days_per_year,
     rest_day      |-> upper(strip(r.rest_day)),
     company       |-> upper(strip(r.company))]

\* ON CONFLICT(name) DO NOTHING: the stored row is kept
Upsert_KeepsStored(emps, e) ==
    IF \E x \in emps : x.name = e.name THEN emps ELSE emps \cup {e}

\* INSERT ... ON CONFLICT(name) DO UPDATE SET ...
Upsert(emps, e) == {x \in emps : x.name # e.name} \cup {e}

RECURSIVE seed_employees(_, _)
seed_employees(emps, rs) ==
    IF rs = <<>> THEN emps
    ELSE seed_employees(Upsert(emps, EmployeeRow(Head(rs))), Tail(rs))

\* defined when the name is in the catalog
get_employee_info(emps, name) == CHOOSE e \in emps : e.name = name

EmployeeLT(a, b) ==
    \/ StrLT(a.plant, b.plant)
    \/ a.plant = b.plant /\ StrLT(a.name, b.name)

\* SELECT name, plant, hire_date, days_per_year FROM employees ORDER BY plant, name
RECURSIVE SelectEmployees(_)
SelectEmployees(emps) ==
    IF emps = {} THEN <<>>
    ELSE LET e == CHOOSE x \in emps : \A o \in emps \ {x} : EmployeeLT(x, o)
         IN <<[name |-> e.name, plant |-> e.plant, hire_date |-> e.hire_date,
               days_per_year |-> e.days_per_year]>>
            \o SelectEmployees(emps \ {e})

(***************************************************************************)
(* Table incidences (hours is always NULL and notes is never read by the   *)
(* vacation report: both are left out of the rows)                         *)
(***************************************************************************)
\* The inc_type values come from select boxes whose options are stripped and
\* upper-cased when they are saved, so inc_type.strip().upper() returns them.
insert_incidence(incs, dt, employee, plant, inc_type) ==
    Append(incs, [dt       |-> dt,
                  employee |-> strip(employee),
                  plant    |-> upper(strip(plant)),
                  inc_type |-> inc_type])

\* DATE(a) = DATE(b)
SqlDateEq(a, b) == IsIsoDate(a) /\ IsIsoDate(b) /\ a = b

replace_incidence_day(incs, emps, dt_iso, employee, inc_type) ==
    LET Keep(r) == ~(r.employee = employee /\ SqlDateEq(r.dt, dt_iso))
        kept == SelectSeq(incs, Keep)
    IN IF inc_type # "" /\ inc_type # "-"      \* "-" is the grid's dash
       THEN insert_incidence(kept, dt_iso, employee,
                             get_employee_info(emps, employee).plant, inc_type)
       ELSE kept

(***************************************************************************)
(* Vacations helpers                                                       *)
(***************************************************************************)
\* months_between with the test of the day of the month the other way round
months_between_DayTestInverted(d1, d2) ==
    (d2.year - d1.year) * 12 + (d2.month - d1.month)
    - (IF d2.day >= d1.day THEN 1 ELSE 0)

\* months_between counting a month only past its anniversary day
months_between_StrictDay(d1, d2) ==
    (d2.year - d1.year) * 12 + (d2.month - d1.month)
    - (IF d2.day > d1.day THEN 0 ELSE 1)

months_between(d1, d2) ==
    (d2.year - d1.year) * 12 + (d2.month - d1.month)
    - (IF d2.day >= d1.day THEN 0 ELSE 1)

\* current_year_period() when date.today() returns t
current_year_period(t) == [start |-> date(t.year, 1, 1), end |-> date(t.year, 12, 31)]

\* prev_year_period() when date.today() returns t
prev_year_period(t) ==
    [start |-> date(t.year - 1, 1, 1), end |-> date(t.year - 1, 12, 31)]

\* float(len(df)): the number of rows the query returns
get_vacations_taken(incs, name, start, end) ==
    Cardinality({i \in DOMAIN incs :
        /\ incs[i].employee = name
        /\ incs[i].inc_type = "VACACIONES"
        /\ SqlDateBetween(incs[i].dt, isoformat(start), isoformat(end))})

Max(a, b) == IF a >= b THEN a ELSE b
Min(a, b) == IF a <= b THEN a ELSE b

\* round((dpy/12.0)*months, 2) in hundredths: 100*dpy*months/12 has fractional
\* part 0, 1/3 or 2/3, never a tie, so round() is rounding to nearest
\* the entitlement cut to 2 decimals instead of rounded
RoundEntitlement_Truncated(dpy, months) == (100 * dpy * months) \div 12

RoundEntitlement(dpy, months) == (200 * dpy * months + 12) \div 24

\* entitlement_cy of one loop iteration
EntitlementCY(hd, dpy, t, cyp) ==
    LET start_for_months == DateMax(hd, cyp.start)
        m == Max(0, months_between(start_for_months, t))
    IN RoundEntitlement(dpy, Min(m, 12))

\* entitlement_py of one loop iteration
EntitlementPY(hd, dpy, pyp) ==
    IF DateLE(hd, pyp.end)
    THEN LET start_for_py == DateMax(hd, pyp.start)
             m_py == Max(0, months_between(start_for_py, pyp.end))
         IN RoundEntitlement(dpy, Min(m_py, 12))
    ELSE 0

\* a balance that stops at zero
Remaining_Clamped(entitlement, taken) ==
    IF entitlement - 100 * taken < 0 THEN 0 ELSE entitlement - 100 * taken

\* round(entitlement - taken, 2) in hundredths; taken is a whole number
Remaining(entitlement, taken) == entitlement - 100 * taken

\* an alert that is not raised once the balance has expired
WillExpire_NotYetExpired(remaining_py, days_to_expiry) ==
    remaining_py > 0 /\ days_to_expiry >= 0 /\ days_to_expiry <= 60

\* will_expire
WillExpire(remaining_py, days_to_expiry) == remaining_py > 0 /\ days_to_expiry <= 60

\* The dictionary one loop iteration appends for the fetched row e, given the
\* two counts it read. entitlement_py and taken_py are locals the dictionary
\* does not carry; they are recorded beside its keys.
StatusRow(e, t, cyp, pyp, taken_cy, taken_py) ==
    LET hd == fromisoformat(e.hire_date)
        dpy == e.days_per_year
        m == Max(0, months_between(DateMax(hd, cyp.start), t))
        entitlement_cy == EntitlementCY(hd, dpy, t, cyp)
        remaining_cy == Remaining(entitlement_cy, taken_cy)
        entitlement_py == EntitlementPY(hd, dpy, pyp)
        remaining_py == Remaining(entitlement_py, taken_py)
        expiry_date == AddDays(pyp.end, 365)
        days_to_expiry == DaysDiff(expiry_date, t)
    IN [Empleado           |-> e.name,
        Planta             |-> e.plant,
        Ingreso            |-> isoformat(hd),
        DiasAnio           |-> dpy,
        MesesTrabajados    |-> m,
        DerechoAnioActual  |-> entitlement_cy,
        TomadoAnioActual   |-> taken_cy,
        SaldoAnioActual    |-> remaining_cy,
        SaldoAnioAnterior  |-> remaining_py,
        VenceSaldoAnterior |-> isoformat(expiry_date),
        DiasParaVencer     |-> days_to_expiry,
        ALERTA             |-> WillExpire(remaining_py, days_to_expiry),
        entitlement_py     |-> entitlement_py,
        taken_py           |-> taken_py]

\* the rows the loop appends for the fetched rows rs, all counts read from incs
RECURSIVE StatusRows(_, _, _, _, _)
StatusRows(rs, incs, t, cyp, pyp) ==
    IF rs = <<>> THEN <<>>
    ELSE LET e == Head(rs)
             rest == StatusRows(Tail(rs), incs, t, cyp, pyp)
         IN IF ~IsIsoDate(e.hire_date) THEN rest
            ELSE <<StatusRow(e, t, cyp, pyp,
                       get_vacations_taken(incs, e.name, cyp.start, cyp.end),
                       get_vacations_taken(incs, e.name, pyp.start, pyp.end))>>
                 \o rest

\* vacation_status_for_all run alone on one database state, the three
\* date.today() calls returning t, tc and tp
vacation_status_for_all(emps, incs, t, tc, tp) ==
    StatusRows(SelectEmployees(emps), incs, t,
               current_year_period(tc), prev_year_period(tp))

\* dfm[["Empleado", "Planta", "Ingreso", "Saldo año actual", ...]]
MonthColumns(r) ==
    [Empleado           |-> r.Empleado,
     Planta             |-> r.Planta,
     Ingreso            |-> r.Ingreso,
     SaldoAnioActual    |-> r.SaldoAnioActual,
     SaldoAnioAnterior  |-> r.SaldoAnioAnterior,
     VenceSaldoAnterior |-> r.VenceSaldoAnterior,
     ALERTA             |-> r.ALERTA]

\* pd.to_datetime(text).dt.month of the text of a date
MesIngreso(text) == fromisoformat(text).month

\* a table of the rows hired in that month or in an earlier month of a year
MonthView_UpToMonth(dfv, mes) ==
    LET InMonth(r) == MesIngreso(r.Ingreso) <= mes
        dfm == SelectSeq(dfv, InMonth)
    IN [i \in 1..Len(dfm) |-> MonthColumns(dfm[i])]

\* tab "Por mes": the table drawn for the month selected, no table (no rows)
\* when dfv or dfm is empty
MonthView(dfv, mes) ==
    LET InMonth(r) == MesIngreso(r.Ingreso) = mes
        dfm == SelectSeq(dfv, InMonth)
    IN [i \in 1..Len(dfm) |-> MonthColumns(dfm[i])]

(***************************************************************************)
(* CSV maestro transform. A cell is the text str() gives of it ("nan" for  *)
(* an empty cell); the cell INGRESO is the triple of the fields of         *)
(* "dd/mm/yyyy".                                                           *)
(***************************************************************************)
LUN == <<"L", "U", "N">>
DOM == <<"D", "O", "M">>

\* the options of the select boxes "Descanso"
RestDays == {LUN, <<"M", "A", "R">>, <<"M", "I", "E">>, <<"J", "U", "E">>,
             <<"V", "I", "E">>, <<"S", "A", "B">>, DOM}

\* _normalize_rest_day, for the days that are in the input files
normalize_rest_day(raw) ==
    LET t == upper(strip(raw))
    IN IF raw = <<>> THEN <<>>
       ELSE IF t \in RestDays THEN t
       ELSE IF t = <<"L", "U", "N", "E", "S">> THEN LUN
       ELSE IF t = <<"D", "O", "M", "I", "N", "G", "O">> THEN DOM
       ELSE <<>>

\* _parse_ddmmyyyy: the ISO text of the date, "" when strptime raises
parse_ddmmyyyy(cell) ==
    LET iso == <<cell[3], cell[2], cell[1]>>
    IN IF IsIsoDate(iso) THEN isoformat(fromisoformat(iso)) ELSE <<>>

\* the try block computing dpy
MasterDaysPerYear(cell) ==
    LET ds == OnlyDigits(cell)
    IN IF ds = <<>> THEN 12
       ELSE IF IntOfDigits(ds) <= 0 THEN 12 ELSE IntOfDigits(ds)

RECURSIVE transform_employees_csv(_)
transform_employees_csv(df) ==
    IF df = <<>> THEN <<>>
    ELSE LET r == Head(df)
             company == upper(strip(r.EMPRESA))
             plant == upper(strip(r.ZONA))
             full_name == strip(ReplaceDoubleSpace(upper(
                              strip(r.NOMBRE) \o <<" ">> \o strip(r.PATERNO)
                              \o <<" ">> \o strip(r.MATERNO))))
             hire_iso == parse_ddmmyyyy(r.INGRESO)
             rest_day == normalize_rest_day(r.DIA_DE_DESCANSO)
             dpy == MasterDaysPerYear(r.DIAS_CORRESPONDIENTES)
             rest == transform_employees_csv(Tail(df))
         IN IF full_name = <<>> \/ plant = <<>> \/ hire_iso = <<>> THEN rest
            ELSE <<[name          |-> full_name,
                    plant         |-> plant,
                    hire_date     |-> hire_iso,
                    days_per_year |-> dpy,
                    rest_day      |-> rest_day,
                    company       |-> company]>> \o rest

(***************************************************************************)
(* Inputs of the interactive sessions                                      *)
(***************************************************************************)
VACACIONES == "VACACIONES"
FALTA == "FALTA"

\* values of date.today() the application is started at
ClockDates == {date(2024, 1, 3), date(2024, 12, 31)}

\* rows typed into "Agregar uno" and "Editar empleado": the plant is text,
\* the hire date comes from a date picker, days per year is at least 1
FormRows ==
    {[name |-> <<"a", " ">>, plant |-> <<"p">>, hire_date |-> isoformat(date(2022, 6, 15)),
      days_per_year |-> 12, rest_day |-> None, company |-> None],
     [name |-> <<"A">>, plant |-> <<"Q">>, hire_date |-> isoformat(date(2024, 1, 1)),
      days_per_year |-> 12, rest_day |-> None, company |-> None],
     [name |-> <<"B">>, plant |-> <<"P">>, hire_date |-> isoformat(date(2023, 6, 1)),
      days_per_year |-> 6, rest_day |-> None, company |-> None]}

\* uploaded empleados.csv files: hire_date is whatever text the file holds
\* ("2024-02-30" below)
CsvFiles ==
    {<<[name |-> <<"b">>, plant |-> <<"p">>, hire_date |-> <<2024, 2, 30>>,
        days_per_year |-> 12, rest_day |-> None, company |-> None]>>,
     <<[name |-> <<"A">>, plant |-> <<"P">>, hire_date |-> <<2022, 6, 15>>,
        days_per_year |-> 12, rest_day |-> None, company |-> None],
       [name |-> <<"B">>, plant |-> <<"P">>, hire_date |-> <<2024, 2, 30>>,
        days_per_year |-> 12, rest_day |-> None, company |-> None]>>}

\* uploaded empleados.csv files whose column days_per_year holds 0 or a
\* number below 0, whose column rest_day holds an empty cell ("nan"), or that
\* hold two rows of one employee
OddCsvFiles ==
    {<<[name |-> <<"a">>, plant |-> <<"p">>, hire_date |-> <<2022, 6, 15>>,
        days_per_year |-> 0, rest_day |-> None, company |-> None]>>,
     <<[name |-> <<"b">>, plant |-> <<"q">>, hire_date |-> <<2023, 6, 1>>,
        days_per_year |-> -3, rest_day |-> None, company |-> None]>>,
     <<[name |-> <<"b">>, plant |-> <<"p">>, hire_date |-> <<2023, 6, 1>>,
        days_per_year |-> 6, rest_day |-> <<"n", "a", "n">>, company |-> None]>>,
     <<[name |-> <<"a">>, plant |-> <<"p">>, hire_date |-> <<2024, 1, 1>>,
        days_per_year |-> 12, rest_day |-> None, company |-> None],
       [name |-> <<"A", " ">>, plant |-> <<"q">>, hire_date |-> <<2022, 6, 15>>,
        days_per_year |-> 6, rest_day |-> LUN, company |-> None]>>}

\* a row of an uploaded empleados_maestro.csv: employee "a b b" of zone "p"
MasterRow(ingreso, descanso, dias) ==
    [EMPRESA |-> <<"n", "a", "n">>, ZONA |-> <<"p">>, NOMBRE |-> <<"a">>,
     PATERNO |-> <<"b", " ">>, MATERNO |-> <<"b">>, INGRESO |-> ingreso,
     DIA_DE_DESCANSO |-> descanso, DIAS_CORRESPONDIENTES |-> dias]

\* uploaded empleados_maestro.csv files: one row each, the cell DIAS
\* CORRESPONDIENTES holding "12", "-5", "0", "12.0", "nan" and "abc", and one
\* with a date of 31/02/2024
MasterFiles ==
    {<<MasterRow(<<15, 6, 2022>>, <<"L", "U", "N", "E", "S">>, dias)>> :
         dias \in {<<"1", "2">>, <<"-", "5">>, <<"0">>, <<"1", "2", ".", "0">>,
                   <<"n", "a", "n">>, <<"a", "b", "c">>}}
    \cup {<<MasterRow(<<31, 2, 2024>>, <<"n", "a", "n">>, <<"1", "2">>),
            MasterRow(<<1, 6, 2023>>, <<"n", "a", "n">>, <<"1", "5">>)>>}

\* what the capture form is filled with: date, employee name as typed, type
CaptureInputs ==
    {[dt |-> date(2023, 12, 31), employee |-> <<"A">>, inc_type |-> VACACIONES],
     [dt |-> date(2024, 1, 1), employee |-> <<"A">>, inc_type |-> VACACIONES],
     [dt |-> date(2024, 12, 31), employee |-> <<"A">>, inc_type |-> VACACIONES],
     [dt |-> date(2024, 1, 1), employee |-> <<"a", " ">>, inc_type |-> VACACIONES],
     [dt |-> date(2024, 1, 1), employee |-> <<"B">>, inc_type |-> VACACIONES],
     [dt |-> date(2024, 1, 1), employee |-> <<"A">>, inc_type |-> FALTA]}

\* the option of the plant select box of the capture form
CapturePlant == <<"P">>

\* days of the weekly matrix that are edited, and the values of a cell
MatrixDates == {date(2024, 1, 1), date(2024, 12, 31)}
MatrixValues == {VACACIONES, FALTA, "-"}

(***************************************************************************)
(* Writes of the sessions. While a report call of another session is       *)
(* between its first and its last read they are recorded in seen.          *)
(***************************************************************************)
Running == rpc \in {"loop", "py"}

DbWrite(emps, incs) ==
    /\ employees' = emps
    /\ incidences' = incs
    /\ IF rpc = "idle"
       THEN UNCHANGED <<seen, midWrites>>
       ELSE /\ midWrites > 0
            /\ midWrites' = midWrites - 1
            /\ seen' = IF Running
                       THEN seen \cup {[employees |-> emps, incidences |-> incs]}
                       ELSE seen
    /\ UNCHANGED <<now, rpc, today, cy, py, rows, idx, tcy, acc, mb, view>>

\* Whether the form "Editar empleado" of the selected employee is drawn: the
\* stored rest day is looked up in the options of its select box, the stored
\* hire date is parsed for the date picker and the stored days per year are
\* the value of a number input whose minimum is 1; each raises otherwise and
\* the script run stops there.
EditFormDraws(sel) ==
    /\ sel.rest_day \in RestDays \cup {None}
    /\ IsIsoDate(sel.hire_date)
    /\ sel.days_per_year >= 1

\* Whether the script run gets to the sections below "Editar empleado":
\* nothing is selected in an empty catalog, else some employee is selected
CatalogPageDraws == employees = {} \/ \E sel \in employees : EditFormDraws(sel)

\* "Agregar uno", the form holding r
Agregar(r) ==
    /\ CatalogPageDraws
    /\ strip(r.name) # <<>>
    /\ DbWrite(seed_employees(employees, <<r>>), incidences)

AddEmployee == \E r \in FormRows : Agregar(r)

\* "Editar empleado": the form of the selected employee sel is drawn, filled
\* in with r and saved
GuardarCambios(sel, r) ==
    /\ EditFormDraws(sel)
    /\ DbWrite(seed_employees(employees, <<r>>), incidences)

EditEmployee == \E sel \in employees, r \in FormRows : GuardarCambios(sel, r)

\* the rows built from an uploaded empleados.csv
CsvRows(file) ==
    [i \in 1..Len(file) |->
        [name          |-> strip(upper(file[i].name)),
         plant         |-> strip(upper(file[i].plant)),
         hire_date     |-> file[i].hire_date,
         days_per_year |-> file[i].days_per_year,
         rest_day      |-> strip(upper(file[i].rest_day)),
         company       |-> strip(upper(file[i].company))]]

\* "Carga masiva (CSV interno)" of an uploaded file whose cells
\* days_per_year are numbers (int() of another cell raises while the rows are
\* built, before the button is drawn)
CargarCsv(file) ==
    /\ CatalogPageDraws
    /\ DbWrite(seed_employees(employees, CsvRows(file)), incidences)

LoadCsv == \E file \in CsvFiles : CargarCsv(file)

\* "Carga masiva desde tu Excel" of an uploaded file
CargarCsvMaestro(df) ==
    /\ CatalogPageDraws
    /\ DbWrite(seed_employees(employees, transform_employees_csv(df)), incidences)

LoadOddCsv == \E file \in OddCsvFiles : CargarCsv(file)

LoadMaster == \E df \in MasterFiles : CargarCsvMaestro(df)

\* "Guardar incidencia"
CaptureIncidence ==
    \E c \in CaptureInputs :
        /\ strip(c.employee) # <<>>
        /\ Len(incidences) < MaxIncidences
        /\ DbWrite(employees,
                   insert_incidence(incidences, isoformat(c.dt), c.employee,
                                    CapturePlant, c.inc_type))

\* the days of the weekly matrix: Monday to Sunday of the current week
InWeek(d, t) == DaysDiff(d, t) + weekday(t) \in 0..6

\* "Guardar cambios de la semana": one replace_incidence_day of its loop over
\* the employees and the days of the week, each committed on its own
SaveMatrixCell ==
    \E d \in {x \in MatrixDates : InWeek(x, now)}, e \in employees, val \in MatrixValues :
        /\ LET incs == replace_incidence_day(incidences, employees, isoformat(d),
                                             e.name, IF val # "-" THEN val ELSE "")
           IN /\ Len(incs) <= MaxIncidences
              /\ incs # incidences
              /\ DbWrite(employees, incs)

(***************************************************************************)
(* vacation_status_for_all, one database read per step                     *)
(***************************************************************************)
NoPeriod == [start |-> NoDate, end |-> NoDate]

\* the three date.today() calls and the SELECT of the employees
StartReport ==
    /\ rpc = "idle"
    /\ today' = now
    /\ cy' = current_year_period(now)
    /\ py' = prev_year_period(now)
    /\ rows' = SelectEmployees(employees)
    /\ idx' = 1
    /\ acc' = <<>>
    /\ rpc' = "loop"
    /\ seen' = {[employees |-> employees, incidences |-> incidences]}
    /\ UNCHANGED <<employees, incidences, now, tcy, midWrites, mb, view>>

\* the loop left at the first hire date that does not parse
SkipRow_Break ==
    /\ rpc = "loop"
    /\ idx <= Len(rows)
    /\ ~IsIsoDate(rows[idx].hire_date)
    /\ idx' = Len(rows) + 1
    /\ UNCHANGED <<employees, incidences, now, rpc, today, cy, py, rows, tcy, acc,
                   seen, midWrites, mb, view>>

\* except Exception: continue
SkipRow ==
    /\ rpc = "loop"
    /\ idx <= Len(rows)
    /\ ~IsIsoDate(rows[idx].hire_date)
    /\ idx' = idx + 1
    /\ UNCHANGED <<employees, incidences, now, rpc, today, cy, py, rows, tcy, acc,
                   seen, midWrites, mb, view>>

\* taken_cy = get_vacations_taken(conn, name, cy_start, cy_end)
ReadTakenCY ==
    /\ rpc = "loop"
    /\ idx <= Len(rows)
    /\ IsIsoDate(rows[idx].hire_date)
    /\ tcy' = get_vacations_taken(incidences, rows[idx].name, cy.start, cy.end)
    /\ rpc' = "py"
    /\ UNCHANGED <<employees, incidences, now, today, cy, py, rows, idx, acc,
                   seen, midWrites, mb, view>>

\* taken_py = get_vacations_taken(conn, name, py_start, py_end); out.append
ReadTakenPY ==
    /\ rpc = "py"
    /\ acc' = Append(acc,
                  StatusRow(rows[idx], today, cy, py, tcy,
                      get_vacations_taken(incidences, rows[idx].name, py.start, py.end)))
    /\ idx' = idx + 1
    /\ tcy' = 0
    /\ rpc' = "loop"
    /\ UNCHANGED <<employees, incidences, now, today, cy, py, rows, seen, midWrites, mb, view>>

\* return pd.DataFrame(out)
ReturnReport ==
    /\ rpc = "loop"
    /\ idx > Len(rows)
    /\ rpc' = "done"
    /\ UNCHANGED <<employees, incidences, now, today, cy, py, rows, idx, tcy, acc,
                   seen, midWrites, mb, view>>

NoView == [mes |-> 0, rows |-> <<>>]

\* tab "Por mes": the month of the select box and the table of that month,
\* drawn from the dataframe the tab's call returned
PorMes ==
    /\ rpc = "done"
    /\ view = NoView
    /\ \E mes \in 1..12 : view' = [mes |-> mes, rows |-> MonthView(acc, mes)]
    /\ UNCHANGED <<employees, incidences, now, rpc, today, cy, py, rows, idx, tcy, acc,
                   seen, midWrites, mb>>

\* the page is drawn and the script run ends
CloseReport ==
    /\ rpc = "done"
    /\ rpc' = "idle"
    /\ today' = NoDate
    /\ cy' = NoPeriod
    /\ py' = NoPeriod
    /\ rows' = <<>>
    /\ idx' = 0
    /\ acc' = <<>>
    /\ seen' = {}
    /\ view' = NoView
    /\ UNCHANGED <<employees, incidences, now, tcy, midWrites, mb>>

NoCall == [d1 |-> NoDate, d2 |-> NoDate, res |-> 0]

InitDb ==
    /\ employees = {}
    /\ incidences = <<>>
    /\ now \in ClockDates
    /\ rpc = "idle"
    /\ today = NoDate
    /\ cy = NoPeriod
    /\ py = NoPeriod
    /\ rows = <<>>
    /\ idx = 0
    /\ tcy = 0
    /\ acc = <<>>
    /\ seen = {}
    /\ mb = NoCall
    /\ view = NoView

Init == InitDb /\ midWrites = MaxMidWrites

InitConc == InitDb /\ midWrites = MaxConcWrites

Next ==
    \/ AddEmployee
    \/ EditEmployee
    \/ LoadCsv
    \/ CaptureIncidence
    \/ SaveMatrixCell
    \/ StartReport
    \/ SkipRow
    \/ ReadTakenCY
    \/ ReadTakenPY
    \/ ReturnReport
    \/ CloseReport

Spec == Init /\ [][Next]_vars

\* the same sessions, more of their writes falling into report calls
SpecConc == InitConc /\ [][Next]_vars

\* the sessions taking turns
InitTurns == InitDb /\ midWrites = 0

\* the tab "Por mes" drawn after its call returns
NextMes == Next \/ PorMes

SpecMes == InitTurns /\ [][NextMes]_vars

\* the page "Catálogo de Empleados" alone, with every kind of file uploaded
NextCat ==
    \/ AddEmployee
    \/ EditEmployee
    \/ LoadCsv
    \/ LoadOddCsv
    \/ LoadMaster

SpecCat == InitTurns /\ [][NextCat]_vars

(***************************************************************************)
(* The report of one employee, day after day: the catalog holds one        *)
(* employee, nobody is on vacation, and the Vacaciones page is opened once *)
(* a day from the first to the last day of the reference years.            *)
(***************************************************************************)
HireYears == 2023..(2024 + NumRefYears - 1)
LastRefYear == 2024 + NumRefYears - 1

CalcHireDates ==
    {date(2022, 6, 15)}
    \cup {date(y, m, d) : y \in HireYears, m \in 1..12, d \in {1, 15, 28}}
    \cup {date(y, m, DaysInMonth(y, m)) : y \in HireYears, m \in {1, 2, 12}}

CalcDaysPerYear == {12, 10}

InitCalc ==
    /\ \E h \in CalcHireDates, dpy \in CalcDaysPerYear :
           employees = {[name |-> <<"A">>, plant |-> <<"P">>, hire_date |-> isoformat(h),
                         days_per_year |-> dpy, rest_day |-> None, company |-> None]}
    /\ incidences = <<>>
    /\ now = date(2024, 1, 1)
    /\ rpc = "idle"
    /\ today = NoDate
    /\ cy = NoPeriod
    /\ py = NoPeriod
    /\ rows = <<>>
    /\ idx = 0
    /\ tcy = 0
    /\ acc = <<>>
    /\ seen = {}
    /\ midWrites = 0
    /\ mb = NoCall
    /\ view = NoView

\* tab "Resumen anual": dfv = vacation_status_for_all(conn), run alone
ResumenAnual ==
    /\ today # now
    /\ today' = now
    /\ cy' = current_year_period(now)
    /\ py' = prev_year_period(now)
    /\ acc' = vacation_status_for_all(employees, incidences, now, now, now)
    /\ UNCHANGED <<employees, incidences, now, rpc, rows, idx, tcy, seen, midWrites, mb, view>>

\* months_between(hd, date.today()) for the employee's hire date
CallMonthsBetween ==
    /\ today = now
    /\ mb.d2 # now
    /\ \E e \in employees :
           /\ IsIsoDate(e.hire_date)
           /\ mb' = [d1  |-> fromisoformat(e.hire_date),
                     d2  |-> now,
                     res |-> months_between(fromisoformat(e.hire_date), now)]
    /\ UNCHANGED <<employees, incidences, now, rpc, today, cy, py, rows, idx, tcy, acc,
                   seen, midWrites, view>>

\* midnight
Tick ==
    /\ today = now
    /\ mb.d2 = now
    /\ AddDays(now, 1).year <= LastRefYear
    /\ now' = AddDays(now, 1)
    /\ UNCHANGED <<employees, incidences, rpc, today, cy, py, rows, idx, tcy, acc,
                   seen, midWrites, mb, view>>

NextCalc == ResumenAnual \/ CallMonthsBetween \/ Tick

SpecCalc == InitCalc /\ [][NextCalc]_vars

(***************************************************************************)
(* The report called around New Year: the catalog holds one employee, the  *)
(* ledger is empty, and the clock passes midnight at any point of the      *)
(* call, between its three calls of date.today() included.                 *)
(***************************************************************************)
\* hire_date texts of the employee, "2024-02-30" among them
ClockHireTexts ==
    {isoformat(date(y, m, 15)) : y \in {2022, 2024}, m \in 1..12}
    \cup {<<2024, 2, 30>>}

InitClock ==
    /\ \E h \in ClockHireTexts, dpy \in CalcDaysPerYear :
           employees = {[name |-> <<"A">>, plant |-> <<"P">>, hire_date |-> h,
                         days_per_year |-> dpy, rest_day |-> None, company |-> None]}
    /\ incidences = <<>>
    /\ now = date(2024, 12, 30)
    /\ rpc = "idle"
    /\ today = NoDate
    /\ cy = NoPeriod
    /\ py = NoPeriod
    /\ rows = <<>>
    /\ idx = 0
    /\ tcy = 0
    /\ acc = <<>>
    /\ seen = {}
    /\ midWrites = 0
    /\ mb = NoCall
    /\ view = NoView

\* today = date.today()
ReadToday ==
    /\ rpc = "idle"
    /\ today' = now
    /\ rpc' = "today"
    /\ UNCHANGED <<employees, incidences, now, cy, py, rows, idx, tcy, acc,
                   seen, midWrites, mb, view>>

\* cy_start, cy_end = current_year_period(), which calls date.today()
ReadCurrentYear ==
    /\ rpc = "today"
    /\ cy' = current_year_period(now)
    /\ rpc' = "cy"
    /\ UNCHANGED <<employees, incidences, now, today, py, rows, idx, tcy, acc,
                   seen, midWrites, mb, view>>

\* py_start, py_end = prev_year_period(), which calls date.today(), and the
\* SELECT of the employees
ReadPrevYear ==
    /\ rpc = "cy"
    /\ py' = prev_year_period(now)
    /\ rows' = SelectEmployees(employees)
    /\ idx' = 1
    /\ acc' = <<>>
    /\ rpc' = "loop"
    /\ seen' = {[employees |-> employees, incidences |-> incidences]}
    /\ UNCHANGED <<employees, incidences, now, today, cy, tcy, midWrites, mb, view>>

\* the clock passes midnight
Midnight ==
    /\ DaysDiff(now, date(2024, 12, 30)) < MaxMidnights
    /\ now' = AddDays(now, 1)
    /\ UNCHANGED <<employees, incidences, rpc, today, cy, py, rows, idx, tcy, acc,
                   seen, midWrites, mb, view>>

NextClock ==
    \/ ReadToday
    \/ ReadCurrentYear
    \/ ReadPrevYear
    \/ SkipRow
    \/ ReadTakenCY
    \/ ReadTakenPY
    \/ ReturnReport
    \/ CloseReport
    \/ Midnight

SpecClock == InitClock /\ [][NextClock]_vars

(***************************************************************************)
(* Claims on the calculation (SpecCalc)                                    *)
(***************************************************************************)
\* C1: an employee hired before the first day of the prior year, with 12
\* days a year, has a prior-year entitlement of 12.00 at every reference
\* date, and with no prior-year vacation a prior-year balance of 12.00.
C1_PriorYearIsTwelve ==
    \A i \in DOMAIN acc :
        (DateLT(fromisoformat(acc[i].Ingreso), py.start) /\ acc[i].DiasAnio = 12)
        => /\ acc[i].entitlement_py = 1200
           /\ acc[i].taken_py = 0 => acc[i].SaldoAnioAnterior = 1200

\* the months worked of C2, written from the claim
C2_MonthsWorked(hd, ref) ==
    LET jan1 == [year |-> ref.year, month |-> 1, day |-> 1]
        start == IF DateLT(jan1, hd) THEN hd ELSE jan1
        raw == 12 * (ref.year - start.year) + (ref.month - start.month)
               - (IF ref.day < start.day THEN 1 ELSE 0)
    IN IF raw < 0 THEN 0 ELSE IF raw > 12 THEN 12 ELSE raw

C3_MonthsBetween ==
    mb # NoCall =>
        /\ mb.res = 12 * (mb.d2.year - mb.d1.year) + (mb.d2.month - mb.d1.month)
                    - (IF mb.d2.day < mb.d1.day THEN 1 ELSE 0)
        /\ DateLE(mb.d1, mb.d2) => mb.res >= 0
        /\ (mb.d1 = date(2024, 1, 15) /\ mb.d2 = date(2024, 3, 10)) => mb.res = 1
        /\ (mb.d1 = date(2024, 1, 15) /\ mb.d2 = date(2024, 3, 20)) => mb.res = 2

C3_Witness ==
    mb.d1 = date(2024, 1, 15) /\ mb.d2 = date(2024, 3, 10) /\ mb.res = 1

C14_ExpiryIsYearEnd ==
    \A i \in DOMAIN acc :
        LET expiry == fromisoformat(acc[i].VenceSaldoAnterior)
        IN /\ acc[i].VenceSaldoAnterior = <<today.year, 12, 31>>
           /\ toordinal(expiry) = toordinal(date(today.year - 1, 12, 31)) + 365
           /\ acc[i].DiasParaVencer = toordinal(expiry) - toordinal(today)

(***************************************************************************)
(* Claims on the clock (SpecClock)                                         *)
(***************************************************************************)
\* C15: once a call has read its reference date and its two periods, the
\* current-year period is Jan 1 to Dec 31 of the year of the reference date
\* and the prior-year period is Jan 1 to Dec 31 of the year before it.
C15_PeriodsOfReferenceYear ==
    rpc \in {"loop", "py", "done"} =>
        /\ cy = [start |-> date(today.year, 1, 1), end |-> date(today.year, 12, 31)]
        /\ py = [start |-> date(today.year - 1, 1, 1),
                 end |-> date(today.year - 1, 12, 31)]

(***************************************************************************)
(* Claims on the sessions and the report (Spec, SpecConc)                  *)
(***************************************************************************)
\* whether the ledger holds no vacation record of the employee in the period
NoVacationRecord(incs, name, period) ==
    \A i \in DOMAIN incs :
        ~(/\ incs[i].employee = name
          /\ incs[i].inc_type = VACACIONES
          /\ DateLE(period.start, fromisoformat(incs[i].dt))
          /\ DateLE(fromisoformat(incs[i].dt), period.end))

\* C4: in every row appended to the report, each balance is the entitlement
\* less the days taken, exactly, below zero when more was taken than earned;
\* a count read while the ledger holds no vacation record of the employee in
\* the period is 0, and the balance is then the entitlement.
C4_BalanceIsExact ==
    [][/\ (rpc = "loop" /\ rpc' = "py" /\ NoVacationRecord(incidences, rows[idx].name, cy))
          => tcy' = 0
       /\ (rpc = "py" /\ rpc' = "loop")
          => LET r == acc'[Len(acc')]
             IN /\ Len(acc') = Len(acc) + 1
                /\ r.TomadoAnioActual = tcy
                /\ r.SaldoAnioActual = r.DerechoAnioActual - 100 * r.TomadoAnioActual
                /\ r.SaldoAnioAnterior = r.entitlement_py - 100 * r.taken_py
                /\ r.TomadoAnioActual = 0 => r.SaldoAnioActual = r.DerechoAnioActual
                /\ NoVacationRecord(incidences, r.Empleado, py)
                   => r.SaldoAnioAnterior = r.entitlement_py
                /\ 100 * r.TomadoAnioActual > r.DerechoAnioActual => r.SaldoAnioActual < 0
                /\ 100 * r.taken_py > r.entitlement_py => r.SaldoAnioAnterior < 0]_vars

\* a finished report with a row whose current-year balance is below zero and
\* whose prior-year balance is the whole prior-year entitlement
C4_Witness ==
    /\ rpc = "done"
    /\ \E i \in DOMAIN acc :
          /\ acc[i].SaldoAnioActual < 0
          /\ acc[i].entitlement_py > 0
          /\ acc[i].SaldoAnioAnterior = acc[i].entitlement_py

\* C5: a row carries the alert exactly when its prior-year balance is above
\* zero and at most 60 days are left to the expiry, days already past
\* included; with a balance of zero or less it never carries it.
C5_AlertIff ==
    \A i \in DOMAIN acc :
        /\ acc[i].ALERTA <=> (acc[i].SaldoAnioAnterior > 0 /\ acc[i].DiasParaVencer <= 60)
        /\ acc[i].SaldoAnioAnterior <= 0 => ~acc[i].ALERTA

\* a report with an alert on a balance that has already expired, and a row
\* without alert whose balance is not above zero
C5_Witness ==
    /\ \E i \in DOMAIN acc : acc[i].ALERTA /\ acc[i].DiasParaVencer < 0
    /\ \E i \in DOMAIN acc : acc[i].SaldoAnioAnterior <= 0 /\ acc[i].DiasParaVencer < 0

\* C6: the ledger never holds two VACACIONES records of one employee for one
\* calendar day.
C6_OneVacationPerDay ==
    \A i, j \in DOMAIN incidences :
        (/\ i # j
         /\ incidences[i].inc_type = VACACIONES
         /\ incidences[j].inc_type = VACACIONES
         /\ incidences[i].employee = incidences[j].employee)
        => incidences[i].dt # incidences[j].dt

\* the vacation records captured for the catalogued employee `name` (the
\* name as typed, trimmed and upper-cased as the catalog stores names) that
\* are dated in the calendar year
VacationsCapturedFor(incs, name, year) ==
    Cardinality({i \in DOMAIN incs :
        /\ upper(strip(incs[i].employee)) = name
        /\ incs[i].inc_type = VACACIONES
        /\ incs[i].dt[1] = year})

\* C7: each count the report reads for an employee is the number of vacation
\* records captured for that employee and dated from Jan 1 to Dec 31 of the
\* period's year.
C7_TakenCountsEveryRecord ==
    [][/\ (rpc = "loop" /\ rpc' = "py")
          => tcy' = VacationsCapturedFor(incidences, rows[idx].name, today.year)
       /\ (rpc = "py" /\ rpc' = "loop")
          => acc'[Len(acc')].taken_py
             = VacationsCapturedFor(incidences, rows[idx].name, today.year - 1)]_vars

\* C8: a returned report is the report over one of the database states that
\* existed between the call's first read and its last.
C8_ReportOfOneSnapshot ==
    rpc = "done" =>
        \E s \in seen :
            acc = StatusRows(SelectEmployees(s.employees), s.incidences, today, cy, py)

\* the names of the fetched rows whose hire date parses, in order
ParsableNames(rs) ==
    LET Ok(e) == IsIsoDate(e.hire_date)
        kept == SelectSeq(rs, Ok)
    IN [i \in 1..Len(kept) |-> kept[i].name]

\* C10: a call over a catalog holding a hire date that does not parse
\* returns, and its report holds one row for each other employee fetched,
\* in the order fetched, and none for the employee of that hire date.
C10_MalformedRowSkipped ==
    /\ rpc = "done" => [i \in 1..Len(acc) |-> acc[i].Empleado] = ParsableNames(rows)
    /\ (rpc = "loop" /\ idx > Len(rows))
       => [i \in 1..Len(acc) |-> acc[i].Empleado] = ParsableNames(rows)

\* a returned report over two fetched employees, the first of them with a
\* hire date that does not parse, holding the row of the second
C10_Witness ==
    /\ rpc = "done"
    /\ Len(rows) = 2
    /\ ~IsIsoDate(rows[1].hire_date)
    /\ Len(acc) = 1
    /\ acc[1].Empleado = rows[2].name

\* the k-th row, in report order, of the rows of the report hired in month m
C11_KthOfMonth(m, k) ==
    LET I == {i \in DOMAIN acc : acc[i].Ingreso[2] = m}
    IN acc[CHOOSE i \in I : Cardinality({j \in I : j <= i}) = k]

\* C11: the table of the month selected holds exactly the rows of the report
\* whose hire date is in that month, in the order of the report; every row of
\* the report is in the table of one month of the 12 and of no other.
C11_MonthlyViewsPartition ==
    view # NoView =>
        /\ Len(view.rows)
           = Cardinality({i \in DOMAIN acc : acc[i].Ingreso[2] = view.mes})
        /\ \A k \in DOMAIN view.rows :
               LET r == C11_KthOfMonth(view.mes, k)
               IN /\ view.rows[k].Empleado = r.Empleado
                  /\ view.rows[k].Ingreso = r.Ingreso
                  /\ view.rows[k].Planta = r.Planta
                  /\ view.rows[k].SaldoAnioActual = r.SaldoAnioActual
                  /\ view.rows[k].SaldoAnioAnterior = r.SaldoAnioAnterior
                  /\ view.rows[k].VenceSaldoAnterior = r.VenceSaldoAnterior
                  /\ view.rows[k].ALERTA = r.ALERTA
        /\ \A i \in DOMAIN acc :
               Cardinality({m \in 1..12 :
                   \E k \in DOMAIN MonthView(acc, m) :
                       MonthView(acc, m)[k].Empleado = acc[i].Empleado}) = 1

\* the table of June holding, in the order of the report, the two rows of a
\* report of two employees both hired in June
C11_Witness ==
    /\ view.mes = 6
    /\ Len(acc) = 2
    /\ Len(view.rows) = 2
    /\ view.rows[1].Empleado = acc[1].Empleado
    /\ view.rows[2].Empleado = acc[2].Empleado
    /\ acc[1].Empleado # acc[2].Empleado

(***************************************************************************)
(* Claims on the catalog (SpecCat)                                         *)
(***************************************************************************)
\* the name an employee is known by: trimmed and upper-cased
C12_Key(name) == upper(strip(name))

\* whether the catalog after the step holds, for every name among the rows
\* rs passed to one upsert call, the attributes of the last row of that name,
\* and every record of another name as it was
C12_LastRowWins(rs) ==
    /\ \A i \in DOMAIN rs :
           (\A j \in DOMAIN rs : j > i => C12_Key(rs[j].name) # C12_Key(rs[i].name))
           => \E e \in employees' :
                  /\ e.name = C12_Key(rs[i].name)
                  /\ e.plant = upper(strip(rs[i].plant))
                  /\ e.hire_date = rs[i].hire_date
                  /\ e.days_per_year = rs[i].days_per_year
                  /\ e.rest_day = upper(strip(rs[i].rest_day))
                  /\ e.company = upper(strip(rs[i].company))
    /\ \A e \in employees :
           (\A i \in DOMAIN rs : C12_Key(rs[i].name) # e.name) => e \in employees'

\* C12: after every catalog operation the catalog holds at most one record
\* per trimmed, upper-cased name, the record of every name the operation
\* upserted carries the attributes of its last upsert, and every name that
\* had a record still has one.
C12_CatalogUpsert ==
    [][/\ \A e1, e2 \in employees' :
              C12_Key(e1.name) = C12_Key(e2.name) => e1 = e2
       /\ \A e \in employees : \E f \in employees' : f.name = e.name
       /\ \A r \in FormRows : Agregar(r) => C12_LastRowWins(<<r>>)
       /\ \A sel \in employees, r \in FormRows :
              GuardarCambios(sel, r) => C12_LastRowWins(<<r>>)
       /\ \A file \in CsvFiles \cup OddCsvFiles :
              CargarCsv(file) => C12_LastRowWins(file)
       /\ \A df \in MasterFiles :
              CargarCsvMaestro(df) => C12_LastRowWins(transform_employees_csv(df))]_vars

\* a catalog holding, beside another employee, the record of a file's second
\* row of the employee A, upserted over the record of its first row
C12_Witness ==
    /\ \E e \in employees :
           /\ e.name = <<"A">> /\ e.plant = <<"Q">> /\ e.days_per_year = 6
           /\ e.rest_day = LUN
    /\ Cardinality(employees) >= 2

\* C13: every stored employee has days per year that are a whole number of
\* at least 1.
C13_AllotmentPositive ==
    \A e \in employees : e.days_per_year \in Nat /\ e.days_per_year >= 1

====
